---- MODULE Spec2Model ----
(***************************************************************************)
(* Model of auto-update-tls: main.py (driver, status check, inventory      *)
(* parser) and auto_certbot.py (standalone manual entry point).            *)
(*                                                                         *)
(* External processes (certbot, openssl, pip, systemctl) are modelled by   *)
(* the outcomes subprocess.run can produce: "ok" (exit 0), "nonzero"       *)
(* (CalledProcessError, check=True) and "notfound" (FileNotFoundError).    *)
(* Text is modelled as sequences of one-character strings.                 *)
(***************************************************************************)
EXTENDS Integers, Sequences, FiniteSets, TLC

VARIABLES
    program,        \* "main" (main.py) or "auto_certbot" (auto_certbot.py)
    mode,           \* "auto" | "list" | "check" | "obtain"  (from sys.argv)
    argDomain,      \* --domain given
    argEmail,       \* --email given
    domainsSet,     \* DOMAINS is a non-empty string in .env
    emailSet,       \* EMAIL is a non-empty string in .env
    use_certbot,    \* USE_CERTBOT toggle
    update_nginx,   \* UPDATE_NGINX toggle
    threshold_days, \* THRESHOLD_DAYS
    domains,        \* per list position: what the status check will find
    now,            \* last datetime.now() (naive local clock), in seconds
    pc,             \* position of the process
    idx,            \* position of the for-loop over domains (1-based)
    exitCode,       \* -1 while running, otherwise the process exit status
    exitCause,      \* why the process ended
    raised,         \* function in which an uncaught exception arose, or "none"
    checked,        \* positions for which check_certificate_status was called
    results,        \* what each completed check returned, by position
    issued,         \* per position: calls of the certbot certonly command
    issueOutcome,   \* per position: outcome of the last certonly command
    reloaded,       \* per position: calls of reload_nginx
    commands,       \* external commands run so far, in order
    blocks,         \* the blocks a generated report was built from
    lines,          \* output.split('\n') of `certbot certificates`
    certificates    \* records built by list_certificates

vars == << program, mode, argDomain, argEmail, domainsSet, emailSet,
           use_certbot, update_nginx, threshold_days, domains, now, pc, idx,
           exitCode, exitCause, raised, checked, results, issued,
           issueOutcome, reloaded, commands, blocks, lines,
           certificates >>

(***************************************************************************)
(* Bounds                                                                  *)
(***************************************************************************)
MaxDomains == 2
MaxLines == 4
MaxBlocks == 2

SecondsPerDay == 86400

NowSet == {90000, 200000}
ExpirySet == {3600, 90000, 93600, 176400, 262800, 372800}
ThresholdSet == {-1, 0, 1, 2}

RunOutcomes == {"ok", "nonzero", "notfound"}

(***************************************************************************)
(* Status Reporter: check_certificate_status                               *)
(***************************************************************************)
\* What the status check finds for a domain:
\*   absent   - cert.pem does not exist
\*   notfound - cert.pem exists, the openssl executable does not
\*   nonzero  - openssl exits non-zero
\*   noeq     - openssl exits 0, stdout contains no '='
\*   baddate  - text after '=' does not match '%b %d %H:%M:%S %Y %Z'
\*   valid    - text after '=' parses to the instant `expiry`
CertKinds == {"absent", "notfound", "nonzero", "noeq", "baddate", "valid"}

CertStates ==
    { [kind |-> k, expiry |-> 0] : k \in CertKinds \ {"valid"} }
        \cup { [kind |-> "valid", expiry |-> e] : e \in ExpirySet }

None == [none |-> TRUE, days |-> 0]
Days(n) == [none |-> FALSE, days |-> n]

\* timedelta.days of (end_date - now): floor of the quotient
TimedeltaDays(end_date, t) == (end_date - t) \div SecondsPerDay

\* the signed whole-day difference, returned without the expiry test
RemainingDaysSigned(end_date, t) == Days(TimedeltaDays(end_date, t))

\* value returned on the parsed branch (main.py lines 138-153)
RemainingDays(end_date, t) ==
    IF end_date - t <= 0 THEN Days(0) ELSE Days(TimedeltaDays(end_date, t))

\* which exceptions the try block of check_certificate_status catches
\* (main.py lines 155-160)
CaughtInCheck(exc) == exc \in {"CalledProcessError", "ValueError"}

\* exception raised inside the try block, by kind of finding
ExceptionOf(cert) ==
    CASE cert.kind = "notfound" -> "FileNotFoundError"
      [] cert.kind = "nonzero"  -> "CalledProcessError"
      [] cert.kind = "noeq"     -> "IndexError"
      [] cert.kind = "baddate"  -> "ValueError"
      [] OTHER                  -> "none"

\* check_certificate_status of main.py: [raised, value]
check_certificate_status(cert, t) ==
    IF cert.kind = "absent" THEN [raised |-> "none", value |-> None]
    ELSE IF ExceptionOf(cert) = "none"
         THEN [raised |-> "none", value |-> RemainingDays(cert.expiry, t)]
    ELSE IF CaughtInCheck(ExceptionOf(cert))
         THEN [raised |-> "none", value |-> None]
    ELSE [raised |-> ExceptionOf(cert), value |-> None]

\* the branch with a strict comparison
NeedsIssueStrict(days_remaining, threshold) ==
    days_remaining.none \/ days_remaining.days < threshold

\* the branch without the `is None` test
NeedsIssueNoNone(days_remaining, threshold) ==
    (~days_remaining.none) /\ days_remaining.days <= threshold

\* branch taken by the loop body of auto_update_certificates:
\* TRUE when obtain_certificate is called (lines 192-201)
NeedsIssue(days_remaining, threshold) ==
    days_remaining.none \/ days_remaining.days <= threshold

\* update_nginx argument obtain_certificate receives from its caller
UpdateNginxArg ==
    program = "main" /\ mode = "auto" /\ update_nginx

\* reload_nginx called outside the try block, whatever certbot returned
ReloadsAfterAlways(outcome, toggle) == toggle

\* whether obtain_certificate goes on to reload_nginx after the certbot run
\* (lines 54-58)
ReloadsAfter(outcome, toggle) == outcome = "ok" /\ toggle

\* main() ignoring the value obtain_certificate returned
ManualExitIgnored(success) == 0

\* exit status chosen by main() after obtain_certificate returned `success`
\* (main.py lines 239-243, auto_certbot.py lines 115-119)
ManualExit(success) == IF success THEN 0 ELSE 1

Positions == 1 .. Len(domains)

(***************************************************************************)
(* Initial states: one per command line / .env / filesystem combination    *)
(***************************************************************************)
DomainLists == UNION { [1 .. n -> CertStates] : n \in 0 .. MaxDomains }

Zeros(n) == [i \in 1 .. n |-> 0]
NoOutcome(n) == [i \in 1 .. n |-> "none"]

\* the part of the state every run starts with
InitRun ==
    /\ pc = "main"
    /\ idx = 1
    /\ exitCode = -1
    /\ exitCause = "running"
    /\ raised = "none"
    /\ checked = << >>
    /\ results = << >>
    /\ issued = Zeros(Len(domains))
    /\ issueOutcome = NoOutcome(Len(domains))
    /\ reloaded = Zeros(Len(domains))
    /\ certificates = << >>
    /\ commands = << >>

\* python main.py            (no arguments: auto mode, .env decides)
InitAuto ==
    /\ program = "main" /\ mode = "auto"
    /\ argDomain = FALSE /\ argEmail = FALSE
    /\ domainsSet \in BOOLEAN /\ emailSet \in BOOLEAN
    /\ use_certbot \in BOOLEAN /\ update_nginx \in BOOLEAN
    /\ threshold_days \in ThresholdSet
    /\ domains \in DomainLists
    /\ (~domainsSet => domains = << >>)
    /\ lines = << >> /\ blocks = << >>
    /\ now \in NowSet

\* python main.py / auto_certbot.py with arguments, other than --list
InitManual ==
    /\ program \in {"main", "auto_certbot"}
    /\ mode \in {"check", "obtain"}
    /\ argDomain \in BOOLEAN /\ argEmail \in BOOLEAN
    /\ domainsSet = FALSE /\ emailSet = FALSE
    /\ use_certbot = TRUE /\ update_nginx \in BOOLEAN
    /\ threshold_days = 0
    /\ domains \in { d \in DomainLists : Len(d) = (IF argDomain THEN 1 ELSE 0) }
    /\ lines = << >> /\ blocks = << >>
    /\ now \in NowSet

(***************************************************************************)
(* Process termination                                                     *)
(***************************************************************************)
Exit(code, cause) ==
    /\ pc' = "exited"
    /\ exitCode' = code
    /\ exitCause' = cause

\* an exception nobody catches: traceback, interpreter exits with status 1
Uncaught(where) ==
    /\ raised' = where
    /\ Exit(1, "uncaught")

(***************************************************************************)
(* check_certbot / install_certbot, as called before any issuance          *)
(***************************************************************************)
\* check_certbot() returns False on CalledProcessError and FileNotFoundError;
\* install_certbot() exits 1 when pip fails, returns otherwise.
\* TRUE when control reaches the statement after the pair.
CertbotReady(probe, pip) == probe = "ok" \/ pip = "ok"

\* the commands the pair runs: the probe, and pip when the probe failed
CertbotCommands(probe) ==
    IF probe = "ok" THEN << "certbot --version" >>
                    ELSE << "certbot --version", "pip install" >>

\* the command check_certificate_status runs when cert.pem exists
CheckCommands(cert) ==
    IF cert.kind = "absent" THEN << >> ELSE << "openssl" >>

(***************************************************************************)
(* auto_update_certificates                                                *)
(***************************************************************************)
\* lines 164-187: configuration, toggle, certbot presence
auto_update_certificates ==
    /\ pc = "main" /\ program = "main" /\ mode = "auto"
    /\ \E probe \in RunOutcomes, pip \in {"ok", "nonzero"} :
        IF ~domainsSet \/ ~emailSet
            THEN Exit(1, "config") /\ UNCHANGED << raised, idx, commands >>
        ELSE IF ~use_certbot
            THEN Exit(0, "disabled") /\ UNCHANGED << raised, idx, commands >>
        ELSE IF ~CertbotReady(probe, pip)
            THEN /\ Exit(1, "install")
                 /\ commands' = commands \o CertbotCommands(probe)
                 /\ UNCHANGED << raised, idx >>
        ELSE /\ pc' = "loop" /\ idx' = 1
             /\ commands' = commands \o CertbotCommands(probe)
             /\ UNCHANGED << exitCode, exitCause, raised >>
    /\ UNCHANGED << program, mode, argDomain, argEmail, domainsSet, emailSet,
                    use_certbot, update_nginx, threshold_days, domains, now,
                    checked, results, issued, issueOutcome, reloaded, blocks,
                    lines, certificates >>

\* lines 189-203, one iteration up to the call of obtain_certificate
LoopCheck ==
    /\ pc = "loop" /\ idx <= Len(domains)
    /\ \E t \in NowSet :
        /\ t >= now
        /\ now' = t
        /\ checked' = Append(checked, idx)
        /\ commands' = commands \o CheckCommands(domains[idx])
        /\ LET r == check_certificate_status(domains[idx], t) IN
            IF r.raised # "none"
                THEN /\ Uncaught("check_certificate_status")
                     /\ UNCHANGED << results, idx >>
            ELSE /\ results' = Append(results, r.value)
                 /\ IF NeedsIssue(r.value, threshold_days)
                        THEN pc' = "obtain" /\ idx' = idx
                        ELSE pc' = "loop" /\ idx' = idx + 1
                 /\ UNCHANGED << exitCode, exitCause, raised >>
    /\ UNCHANGED << program, mode, argDomain, argEmail, domainsSet, emailSet,
                    use_certbot, update_nginx, threshold_days, domains,
                    issued, issueOutcome, reloaded, blocks, lines, certificates >>

\* the for loop is exhausted: auto_update_certificates and main return
LoopEnd ==
    /\ pc = "loop" /\ idx > Len(domains)
    /\ Exit(0, "ok")
    /\ UNCHANGED << program, mode, argDomain, argEmail, domainsSet, emailSet,
                    use_certbot, update_nginx, threshold_days, domains, now,
                    idx, raised, checked, results, issued, issueOutcome,
                    reloaded, commands, blocks, lines, certificates >>

(***************************************************************************)
(* obtain_certificate and reload_nginx                                     *)
(***************************************************************************)
\* obtain_certificate returned `success` to its caller
Returned(success) ==
    IF mode = "auto"
        THEN /\ pc' = "loop" /\ idx' = idx + 1
             /\ UNCHANGED << exitCode, exitCause, raised >>
        ELSE /\ Exit(ManualExit(success),
                     IF ManualExit(success) = 0 THEN "ok" ELSE "issuance")
             /\ UNCHANGED << raised, idx >>

\* main.py lines 41-63 (auto_certbot.py 31-51) up to the call of reload_nginx
obtain_certificate ==
    /\ pc = "obtain"
    /\ \E outcome \in RunOutcomes :
        /\ issued' = [issued EXCEPT ![idx] = @ + 1]
        /\ commands' = Append(commands, "certbot certonly")
        /\ issueOutcome' = [issueOutcome EXCEPT ![idx] = outcome]
        /\ IF outcome = "notfound"
                THEN Uncaught("obtain_certificate") /\ UNCHANGED idx
           ELSE IF ReloadsAfter(outcome, UpdateNginxArg)
                THEN /\ pc' = "reload"
                     /\ UNCHANGED << idx, exitCode, exitCause, raised >>
           ELSE Returned(outcome = "ok")
    /\ UNCHANGED << program, mode, argDomain, argEmail, domainsSet, emailSet,
                    use_certbot, update_nginx, threshold_days, domains, now,
                    checked, results, reloaded, blocks, lines, certificates >>

\* main.py lines 24-30, then `return True` of obtain_certificate
reload_nginx ==
    /\ pc = "reload"
    /\ \E outcome \in RunOutcomes :
        /\ reloaded' = [reloaded EXCEPT ![idx] = @ + 1]
        /\ commands' = Append(commands, "systemctl reload nginx")
        /\ IF outcome = "notfound"
                THEN Uncaught("reload_nginx") /\ UNCHANGED idx
                ELSE Returned(TRUE)
    /\ UNCHANGED << program, mode, argDomain, argEmail, domainsSet, emailSet,
                    use_certbot, update_nginx, threshold_days, domains, now,
                    checked, results, issued, issueOutcome, blocks, lines,
                    certificates >>

(***************************************************************************)
(* main(), manual modes                                                    *)
(***************************************************************************)
\* main.py lines 224-229, auto_certbot.py lines 96-105.  The check of
\* auto_certbot.py (lines 53-92) has the same try block and the same two
\* except clauses; it returns True / False, which main() discards, so only
\* main.py's return value is recorded in `results`.
MainCheck ==
    /\ pc = "main" /\ mode = "check"
    /\ \E t \in NowSet :
        /\ t >= now
        /\ IF ~argDomain
            THEN /\ Exit(IF program = "main" THEN 1 ELSE 2, "config")
                 /\ UNCHANGED << raised, now, checked, results, commands >>
            ELSE /\ now' = t
                 /\ checked' = Append(checked, 1)
                 /\ commands' = commands \o CheckCommands(domains[1])
                 /\ LET r == check_certificate_status(domains[1], t) IN
                     IF r.raised # "none"
                        THEN Uncaught("check_certificate_status")
                             /\ UNCHANGED results
                        ELSE /\ results' = IF program = "main"
                                                THEN Append(results, r.value)
                                                ELSE results
                             /\ Exit(0, "ok")
                             /\ UNCHANGED raised
    /\ UNCHANGED << program, mode, argDomain, argEmail, domainsSet, emailSet,
                    use_certbot, update_nginx, threshold_days, domains, idx,
                    issued, issueOutcome, reloaded, blocks, lines, certificates >>

\* main.py lines 230-239, auto_certbot.py lines 96-115: up to obtain_certificate
MainObtain ==
    /\ pc = "main" /\ mode = "obtain"
    /\ \E probe \in RunOutcomes, pip \in {"ok", "nonzero"} :
        IF ~argDomain /\ program = "auto_certbot"
            THEN Exit(2, "config") /\ UNCHANGED commands
        ELSE IF ~argDomain \/ ~argEmail
            THEN Exit(1, "config") /\ UNCHANGED commands
        ELSE IF ~CertbotReady(probe, pip)
            THEN /\ Exit(1, "install")
                 /\ commands' = commands \o CertbotCommands(probe)
        ELSE /\ pc' = "obtain"
             /\ commands' = commands \o CertbotCommands(probe)
             /\ UNCHANGED << exitCode, exitCause >>
    /\ UNCHANGED << program, mode, argDomain, argEmail, domainsSet, emailSet,
                    use_certbot, update_nginx, threshold_days, domains, now,
                    idx, raised, checked, results, issued, issueOutcome,
                    reloaded, blocks, lines, certificates >>

(***************************************************************************)
(* Text primitives (str.startswith, str.strip, str.rstrip, str.split)      *)
(***************************************************************************)
startswith(s, p) == Len(s) >= Len(p) /\ SubSeq(s, 1, Len(p)) = p

IsSpace(c) == c = " "

RECURSIVE lstrip(_)
lstrip(s) == IF s # << >> /\ IsSpace(Head(s)) THEN lstrip(Tail(s)) ELSE s

\* s.rstrip(c) for a single character c
RECURSIVE rstrip(_, _)
rstrip(s, c) ==
    IF s # << >> /\ s[Len(s)] = c THEN rstrip(SubSeq(s, 1, Len(s) - 1), c) ELSE s

strip(s) == rstrip(lstrip(s), " ")

\* index of the first occurrence of sep in s, 0 when there is none
find(s, sep) ==
    LET hits == { k \in 1 .. (Len(s) - Len(sep) + 1) :
                    SubSeq(s, k, k + Len(sep) - 1) = sep }
    IN IF hits = {} THEN 0 ELSE CHOOSE k \in hits : \A j \in hits : k <= j

Contains(s, sep) == find(s, sep) # 0

\* s.split(sep): every piece
RECURSIVE split(_, _)
split(s, sep) ==
    LET k == find(s, sep) IN
    IF k = 0 THEN << s >>
    ELSE << SubSeq(s, 1, k - 1) >> \o split(SubSeq(s, k + Len(sep), Len(s)), sep)

\* s.split(sep, 1): at most one cut
split1(s, sep) ==
    LET k == find(s, sep) IN
    IF k = 0 THEN << s >>
    ELSE << SubSeq(s, 1, k - 1), SubSeq(s, k + Len(sep), Len(s)) >>

(***************************************************************************)
(* Inventory Parser: the parse loop of list_certificates                   *)
(***************************************************************************)

CertificateNamePrefix ==
    << " ", " ", "C", "e", "r", "t", "i", "f", "i", "c", "a", "t",
       "e", " ", "N", "a", "m", "e", ":" >>

DomainsPrefix ==
    << " ", " ", " ", " ", "D", "o", "m", "a", "i", "n", "s", ":" >>

ExpiryDatePrefix ==
    << " ", " ", " ", " ", "E", "x", "p", "i", "r", "y", " ", "D",
       "a", "t", "e", ":" >>

EmptyStr == << >>

\* the inner loop condition without the blank-line test
InBodyNoBlank(line) == ~startswith(line, CertificateNamePrefix)

\* condition of the inner while loop on lines[i] (main.py line 86)
InBody(line) == ~startswith(line, CertificateNamePrefix) /\ strip(line) # EmptyStr

\* lines 90-92: the two fields taken from an expiry line
ExpiryFields(line) ==
    LET expiry_line == strip(split1(line, << ":" >>)[2]) IN
    [ expiry |-> strip(split(expiry_line, << " ", "(" >>)[1]),
      status |-> IF Contains(expiry_line, << " ", "(" >>)
                    THEN rstrip(split(expiry_line, << " ", "(" >>)[2], ")")
                    ELSE EmptyStr ]

\* lines 87-92: effect of one body line on the record in progress
BodyLine(rec, line) ==
    IF startswith(line, DomainsPrefix)
        THEN [rec EXCEPT !.domains = strip(split1(line, << ":" >>)[2])]
    ELSE IF startswith(line, ExpiryDatePrefix)
        THEN [rec EXCEPT !.expiry = ExpiryFields(line).expiry,
                         !.status = ExpiryFields(line).status]
    ELSE rec

\* lines 86-93: the inner while loop from index i; [i, rec] when it stops
RECURSIVE Body(_, _, _)
Body(ls, i, rec) ==
    IF i <= Len(ls) /\ InBody(ls[i])
        THEN Body(ls, i + 1, BodyLine(rec, ls[i]))
        ELSE [i |-> i, rec |-> rec]

\* lines 79-101: the outer while loop from index i with `certs` collected
RECURSIVE ParseFrom(_, _, _)
ParseFrom(ls, i, certs) ==
    IF i > Len(ls) THEN certs
    ELSE IF startswith(ls[i], CertificateNamePrefix)
        THEN LET b == Body(ls, i + 1,
                        [ name    |-> strip(split1(ls[i], << ":" >>)[2]),
                          domains |-> EmptyStr,
                          expiry  |-> EmptyStr,
                          status  |-> EmptyStr ])
             IN ParseFrom(ls, b.i, Append(certs, b.rec))
    ELSE ParseFrom(ls, i + 1, certs)

\* lines 76-101
Parse(ls) == ParseFrom(ls, 1, << >>)

\* list_certificates (main.py lines 65-118), reached from main() line 223.
\* `probe` is the certbot --version run of check_certbot, `run` the
\* `certbot certificates` run (certbot was just found, so it exits 0 or not).
list_certificates ==
    /\ pc = "main" /\ program = "main" /\ mode = "list"
    /\ \E probe \in RunOutcomes, run \in {"ok", "nonzero"} :
        /\ certificates' = IF probe = "ok" /\ run = "ok"
                              THEN Parse(lines) ELSE << >>
        /\ pc' = IF probe # "ok" THEN "exited_nocertbot"
                 ELSE IF run # "ok" THEN "exited_listfailed"
                 ELSE "exited_listed"
        /\ commands' = IF probe = "ok"
                          THEN << "certbot --version", "certbot certificates" >>
                          ELSE << "certbot --version" >>
        /\ exitCode' = 0
        /\ exitCause' = "ok"
    /\ UNCHANGED << program, mode, argDomain, argEmail, domainsSet, emailSet,
                    use_certbot, update_nginx, threshold_days, domains, now,
                    idx, raised, checked, results, issued, issueOutcome,
                    reloaded, lines, blocks >>

(***************************************************************************)
(* Reports handed to the parser                                            *)
(***************************************************************************)
\* field texts of generated blocks (no surrounding blanks, none empty)
NameSet == { << "a" >>, << "b", ":", "c" >> }
DomainListSet == { << "x" >>, << "x", " ", "y" >> }
DateSet == { << "d" >>, << "1", ":", "2", " ", "3" >> }
StatusSet == { << "V" >>, << "V", ":", " ", "3" >>,
               << "V", " ", "(", "t" >>, << "V", ")" >> }

BlockSet == [ name : NameSet, domains : DomainListSet,
              expiry : DateSet, status : StatusSet ]

BlockSeqs == UNION { [1 .. n -> BlockSet] : n \in 0 .. MaxBlocks }

\* the three lines certbot prints for one certificate
BlockLines(b) ==
    << CertificateNamePrefix \o << " " >> \o b.name,
       DomainsPrefix \o << " " >> \o b.domains,
       ExpiryDatePrefix \o << " " >> \o b.expiry \o << " ", "(" >>
           \o b.status \o << ")" >> >>

\* the text of the blocks, ended by a newline, after split('\n')
RECURSIVE Report(_)
Report(bs) ==
    IF bs = << >> THEN << EmptyStr >>
    ELSE BlockLines(Head(bs)) \o Report(Tail(bs))

\* lines of arbitrary reports
LineSet ==
    { CertificateNamePrefix \o << " ", "a" >>,
      DomainsPrefix \o << " ", "x" >>,
      DomainsPrefix \o << " ", "z" >>,
      ExpiryDatePrefix \o << " ", "d", " ", "(", "V", ")" >>,
      EmptyStr,
      << " ", " " >>,
      << " ", " ", " ", " ", "S", "e", "r", "i", "a", "l", ":", " ", "1" >>,
      << " ", " ", " " >> \o SubSeq(DomainsPrefix, 5, 12) \o << " ", "y" >> }

LineSeqs == UNION { [1 .. n -> LineSet] : n \in 0 .. MaxLines }

\* python main.py --list
InitList ==
    /\ program = "main" /\ mode = "list"
    /\ argDomain = FALSE /\ argEmail = FALSE
    /\ domainsSet = FALSE /\ emailSet = FALSE
    /\ use_certbot = TRUE /\ update_nginx = FALSE
    /\ threshold_days = 0
    /\ domains = << >>
    /\ now = 0
    /\ \/ blocks \in BlockSeqs /\ lines = Report(blocks)
       \/ blocks = << >> /\ lines \in LineSeqs

(***************************************************************************)
(* Specifications                                                          *)
(***************************************************************************)
Init == (InitAuto \/ InitManual) /\ InitRun

Next ==
    \/ auto_update_certificates
    \/ LoopCheck
    \/ LoopEnd
    \/ obtain_certificate
    \/ reload_nginx
    \/ MainCheck
    \/ MainObtain

\* the driver: auto mode and the manual check / obtain modes
Spec == Init /\ [][Next]_vars

InitParser == InitList /\ InitRun

NextParser == list_certificates

\* the inventory listing
SpecParser == InitParser /\ [][NextParser]_vars

(***************************************************************************)
(* Claims                                                                  *)
(***************************************************************************)
Exited == pc = "exited"

\* position p has been checked and the check returned
Checked(p) == p <= Len(results)

\* C1: once the certificate artifact exists, no exception escapes
\* check_certificate_status, whatever the openssl invocation does: the
\* failure is reported and None returned.
C1_NoExceptionEscapes == raised # "check_certificate_status"

\* C2: in auto mode, once the loop over the domains is entered, every
\* configured domain is checked, in list order, before the process ends,
\* whatever happened to the domains before it.
C2_EveryDomainChecked ==
    (mode = "auto" /\ Exited /\ exitCause \in {"ok", "uncaught"})
        => checked = [i \in 1 .. Len(domains) |-> i]

C5_ThresholdPolicy ==
    mode = "auto" =>
        \A p \in Positions :
            /\ ~Checked(p) => issued[p] = 0
            /\ (Checked(p) /\ ~results[p].none
                    /\ results[p].days > threshold_days) => issued[p] = 0
            /\ (Checked(p) /\ (domains[p].kind = "absent"
                    \/ (~results[p].none /\ results[p].days <= threshold_days)))
                  => \/ issued[p] = 1
                     \/ issued[p] = 0 /\ pc = "obtain" /\ idx = p

\* a completed pass that renewed a domain exactly on the threshold and
\* skipped a healthy one
C5_Witness ==
    /\ mode = "auto" /\ Exited /\ exitCause = "ok" /\ Len(domains) = 2
    /\ ~results[1].none /\ results[1].days = threshold_days /\ issued[1] = 1
    /\ ~results[2].none /\ results[2].days > threshold_days /\ issued[2] = 0

\* C6: the process ends with a non-zero status only for a configuration
\* error or for a failed issuance in manual obtain mode.
C6_NonZeroExitOnly ==
    (Exited /\ exitCode # 0)
        => \/ exitCause = "config"
           \/ mode = "obtain" /\ exitCause = "issuance"

\* C7: in manual obtain mode the process exits non-zero when --domain or
\* --email is missing, having run no external command, and when the
\* issuance command fails; it exits zero only when issuance succeeded.
C7_ManualExitStatus ==
    (mode = "obtain" /\ Exited) =>
        /\ (~argDomain \/ ~argEmail) => (exitCode # 0 /\ commands = << >>)
        /\ (\E p \in Positions : issueOutcome[p] \in {"nonzero", "notfound"})
                => exitCode # 0
        /\ exitCode = 0
                => (Len(domains) = 1 /\ issueOutcome[1] = "ok" /\ issued[1] = 1)

\* manual issuance failed and the process exited non-zero
C7_Witness ==
    /\ mode = "obtain" /\ Exited /\ argDomain /\ argEmail
    /\ issueOutcome[1] = "nonzero" /\ exitCode = 1

\* C8: reload_nginx runs only with the reload toggle on and only directly
\* after an issue/renew command that succeeded, at most once for it.
C8_ReloadOnlyAfterSuccess ==
    /\ \A p \in Positions :
        /\ reloaded[p] <= 1
        /\ (reloaded[p] = 1 \/ (pc = "reload" /\ idx = p))
              => /\ program = "main" /\ mode = "auto" /\ update_nginx
                 /\ issueOutcome[p] = "ok" /\ issued[p] = 1
                 /\ Checked(p) /\ NeedsIssue(results[p], threshold_days)
    /\ \A k \in 1 .. Len(commands) :
        commands[k] = "systemctl reload nginx"
            => k > 1 /\ commands[k - 1] = "certbot certonly"
    /\ pc = "reload" => commands[Len(commands)] = "certbot certonly"

\* a renewal succeeded and nginx was reloaded once for it
C8_Witness ==
    \E p \in Positions :
        reloaded[p] = 1 /\ issueOutcome[p] = "ok" /\ update_nginx

\* C10: in auto mode an existing but unreadable certificate (openssl exits
\* non-zero, or the date does not parse) yields the same None as a missing
\* one, and the domain gets the issue command whatever threshold_days is.
C10_UnreadableTreatedAsAbsent ==
    mode = "auto" =>
        \A p \in Positions :
            (Checked(p) /\ domains[p].kind \in {"nonzero", "baddate"})
                => /\ results[p] = None
                   /\ results[p] =
                        check_certificate_status(
                            [kind |-> "absent", expiry |-> 0], now).value
                   /\ \/ issued[p] = 1
                      \/ issued[p] = 0 /\ pc = "obtain" /\ idx = p

\* an unreadable certificate was re-issued although the threshold is below
\* any remaining-days value the check can return
C10_Witness ==
    /\ mode = "auto" /\ threshold_days < 0
    /\ \E p \in Positions :
        /\ Checked(p) /\ domains[p].kind = "baddate"
        /\ issued[p] = 1 /\ issueOutcome[p] = "ok"

(***************************************************************************)
(* Claims about the inventory parser                                       *)
(***************************************************************************)
Listed == pc = "exited_listed"

IsHeader(line) == startswith(line, CertificateNamePrefix)
IsBlank(line) == strip(line) = EmptyStr
AfterColon(line) == strip(split1(line, << ":" >>)[2])

Headers(ls) == { i \in 1 .. Len(ls) : IsHeader(ls[i]) }

\* index of the line that ends the body of the header at h: the next header
\* or blank line, or one past the end
BodyEnd(ls, h) ==
    LET stops == { j \in (h + 1) .. Len(ls) : IsHeader(ls[j]) \/ IsBlank(ls[j]) }
    IN IF stops = {} THEN Len(ls) + 1
       ELSE CHOOSE j \in stops : \A k \in stops : j <= k

\* the last line with `prefix` in the body of the header at h, 0 if none
LastField(ls, h, prefix) ==
    LET hits == { j \in (h + 1) .. (BodyEnd(ls, h) - 1) : startswith(ls[j], prefix) }
    IN IF hits = {} THEN 0
       ELSE CHOOSE j \in hits : \A k \in hits : k <= j

\* C3: a report built from N well-formed blocks parses to exactly N
\* records, in input order, whose name, domains, expiry and status equal
\* the inputs verbatim.
C3_RoundTrip ==
    (Listed /\ lines = Report(blocks))
        => certificates = [k \in 1 .. Len(blocks) |-> blocks[k]]

\* C9: there is one record per header line, in order; a Domains or Expiry
\* Date line sets a field of a record exactly when it lies between the
\* record's header and the first following blank or header line; no other
\* line changes a field.
C9_RecordBodyBoundary ==
    Listed =>
        /\ Len(certificates) = Cardinality(Headers(lines))
        /\ \A h \in Headers(lines) :
            LET rec == certificates[Cardinality({ j \in Headers(lines) : j <= h })]
                d == LastField(lines, h, DomainsPrefix)
                e == LastField(lines, h, ExpiryDatePrefix)
            IN /\ rec.name = AfterColon(lines[h])
               /\ rec.domains = IF d = 0 THEN EmptyStr ELSE AfterColon(lines[d])
               /\ rec.expiry =
                    IF e = 0 THEN EmptyStr ELSE ExpiryFields(lines[e]).expiry
               /\ rec.status =
                    IF e = 0 THEN EmptyStr ELSE ExpiryFields(lines[e]).status

\* a Domains line before any header and one after the blank line that
\* closed the only record: neither reaches the record
C9_Witness ==
    /\ Listed /\ Len(lines) = 4
    /\ startswith(lines[1], DomainsPrefix)
    /\ IsHeader(lines[2]) /\ IsBlank(lines[3])
    /\ startswith(lines[4], DomainsPrefix)
    /\ Len(certificates) = 1 /\ certificates[1].domains = EmptyStr

====
